---- MODULE Spec2Model ----
(***************************************************************************)
(* Firstbeat Sports Cloud API sample code: the CloudAPI client             *)
(* (quickstart/cloudapiclient.py), the standalone token signer             *)
(* (auth/jwt_create.py), the consumer registration script                  *)
(* (registration/register_consumer.py) and the example program             *)
(* (quickstart/cloud-api-example.py), as a state machine.                  *)
(*                                                                         *)
(* The client is single-threaded and blocking.  One action is one stretch  *)
(* of code between two blocking points (a requests.get waiting for its     *)
(* response, a time.sleep): Call runs a fetcher from its entry to its      *)
(* first request, KeyResponse and the fetchers' Response actions run from a *)
(* response to the next request or to the return, WakeUp runs from the    *)
(* end of a sleep to the next request.  The server is the environment: it *)
(* answers each request with any status and body of the endpoint's set.   *)
(*                                                                         *)
(* Time is counted in ticks, TicksPerSecond to a second, so that           *)
(* int(time.time()) is a real truncation.  Time passes while the client is *)
(* blocked or idle; straight-line code between blocking points takes no    *)
(* time.                                                                   *)
(*                                                                         *)
(* Python values are tagged records [t |-> type, v |-> value]; dicts are   *)
(* functions from key strings.                                             *)
(***************************************************************************)
EXTENDS Integers, Sequences, FiniteSets, TLC

VARIABLES
    api_key,        \* CloudAPI.api_key
    consumer_id,    \* CloudAPI.consumer_id
    shared_secret,  \* CloudAPI.shared_secret
    op,             \* the fetcher being run (a record: name and arguments)
    pc,             \* where the fetcher is blocked: idle, key, res, sleep
    items,          \* the local accumulator: athletes / teams / measurements
    more,           \* the local more
    params,         \* the local params
    retry_count,    \* the local retry_count
    result,         \* how the last fetcher ended: the value returned or the exception
    now,            \* the clock, in ticks
    lastReq,        \* the request most recently handed to requests.get
    \* history of the transport, as a mock transport would record it
    calls,          \* fetchers called on this instance
    calledAt,       \* the clock when the last fetcher was called
    keyReqs,        \* API-key retrieval requests sent by this instance
    keyOKs,         \* API-key retrievals that returned a key
    keyWrites,      \* assignments to api_key after construction
    responses,      \* this call: the resource responses received, in order
    sent,           \* this call: the params of the resource requests sent, in order
    delays,         \* this call: the lengths of the sleeps done, in seconds
    \* the jwt_create.py script
    cliToken,       \* what the script last printed, with the inputs it was run on
    \* the register_consumer.py script
    regPc,          \* where main is: start, name, confirm, post, done
    args,           \* main: args, the parsed command line
    consumer_name,  \* main: consumer_name
    confirmInput,   \* what was typed at the confirmation prompt, if it was shown
    posts,          \* the requests handed to session.post, in order
    postOutcome,    \* how session.post ended: a response, or a transport exception
    credentials,    \* how register_consumer ended: the value returned or the exception
    mainResult,     \* how main ended: the value returned or the exception
    \* the cloud-api-example.py program
    exPc,           \* where main is: start, the fetcher it waits for, a prompt, done
    accounts,                     \* main: accounts
    account_coaches,              \* main: account_coaches
    account_teams,                \* main: account_teams
    account_athletes,             \* main: account_athletes
    athlete_measurements,         \* main: athlete_measurements
    athlete_measurement_results,  \* main: athlete_measurement_results
    fetches,        \* the fetchers main has called, in order
    exResult        \* how main ended: the value returned, sys.exit or the exception

vars == <<api_key, consumer_id, shared_secret, op, pc, items, more, params,
          retry_count, result, now, lastReq, calls, calledAt, keyReqs, keyOKs, keyWrites,
          responses, sent, delays, cliToken,
          regPc, args, consumer_name, confirmInput, posts, postOutcome, credentials,
          mainResult,
          exPc, accounts, account_coaches, account_teams, account_athletes,
          athlete_measurements, athlete_measurement_results, fetches, exResult>>

exampleVars == <<exPc, accounts, account_coaches, account_teams, account_athletes,
                 athlete_measurements, athlete_measurement_results, fetches, exResult>>

regVars == <<regPc, args, consumer_name, confirmInput, posts, postOutcome, credentials,
             mainResult>>

clientVars == <<api_key, consumer_id, shared_secret, op, pc, items, more, params,
                retry_count, result, lastReq, calls, calledAt, keyReqs, keyOKs, keyWrites,
                responses, sent, delays>>

(***************************************************************************)
(* Bounds of the model.                                                    *)
(***************************************************************************)
MaxCalls == 2
MaxPages == 3
MaxPageLen == 2
MaxLatency == 1
MaxClock == 5
TicksPerSecond == 2

(***************************************************************************)
(* Program constants.                                                      *)
(***************************************************************************)
max_retries == 5
RetryDelay == 5

(***************************************************************************)
(* Values.                                                                 *)
(***************************************************************************)
None == [t |-> "None"]
Str(s) == [t |-> "str", v |-> s]
List(s) == [t |-> "list", v |-> s]
Dict(d) == [t |-> "dict", v |-> d]
EmptyDict == [k \in {} |-> 0]

ConsumerIds == {"c1", "c2"}
Secrets == {"s1", "s2"}
Keys == {"K1", "K2"}
Statuses == {200, 202, 204, 500}

\* A response body: text that response.json() parses, or text it does not.
Json(v) == [t |-> "json", v |-> v]
NotJson == [t |-> "text"]
ErrorBody == Json("message" :> "error")

FlatFetchers == {"get_accounts", "get_account_coaches"}
PagedFetchers == {"get_account_athletes", "get_account_teams", "get_athlete_measurements"}
ResultsFetcher == "get_athlete_measurement_results"

\* The variables argument of get_athlete_measurement_results: omitted, or a list.
VariableArgs == {None, List(<<"hr", "epoc">>)}

\* A fetcher call: the method and its variables argument (None where it has none).
\* The account, athlete and measurement ids are fixed.
Ops ==
    {[name |-> n, variables |-> None] : n \in FlatFetchers \cup PagedFetchers}
    \cup {[name |-> ResultsFetcher, variables |-> v] : v \in VariableArgs}

NoOp == [name |-> "none", variables |-> None]

NoResult == [kind |-> "none"]
Return(v, line) == [kind |-> "return", v |-> v, line |-> line]
Raise(e, line) == [kind |-> "raise", v |-> [t |-> "exception", v |-> e], line |-> line]

NoRequest ==
    [kind |-> "none", url |-> "", params |-> EmptyDict, headers |-> EmptyDict, sentAt |-> 0]

NoCliToken == [ran |-> FALSE]

(***************************************************************************)
(* The token signers.                                                      *)
(***************************************************************************)
\* jwt.encode(payload, key, algorithm="HS256"): the payload, signed with key.
JwtEncode(payload, key) == [payload |-> payload, key |-> key, alg |-> "HS256"]

\* int(time.time())
IntTime == now \div TicksPerSecond

\* A slip: the token is made once, when the fetcher is called, and used for
\* every request of the call.
GenerateJwtToken_PerCall ==
    LET t == calledAt \div TicksPerSecond
        expires == t + 300
        payload == [iss |-> consumer_id, iat |-> t, exp |-> expires]
    IN  JwtEncode(payload, shared_secret)

\* CloudAPI.generate_jwt_token
GenerateJwtToken ==
    LET t == IntTime
        expires == t + 300
        payload == [iss |-> consumer_id, iat |-> t, exp |-> expires]
    IN  JwtEncode(payload, shared_secret)

\* A slip: round(time.time()) for int(time.time()).
CreateJwtToken_Rounded(cid, secret) ==
    LET t == (2 * now + TicksPerSecond) \div (2 * TicksPerSecond)
        expires == t + 300
        payload == [iss |-> cid, iat |-> t, exp |-> expires]
        token == JwtEncode(payload, secret)
    IN  token

\* jwt_create.create_jwt_token
CreateJwtToken(cid, secret) ==
    LET t == IntTime
        expires == t + 300
        payload == [iss |-> cid, iat |-> t, exp |-> expires]
        token == JwtEncode(payload, secret)
    IN  token

\* f"Bearer {token}"
Bearer(token) == [scheme |-> "Bearer", token |-> token]

(***************************************************************************)
(* Requests.                                                               *)
(***************************************************************************)
Url(o) ==
    CASE o.name = "get_accounts" -> "/v1/sports/accounts/"
      [] o.name = "get_account_coaches" -> "/v1/sports/accounts/{account_id}/coaches"
      [] o.name = "get_account_athletes" -> "/v1/sports/accounts/{account_id}/athletes"
      [] o.name = "get_account_teams" -> "/v1/sports/accounts/{account_id}/teams"
      [] o.name = "get_athlete_measurements" ->
            "/v1/sports/accounts/{account_id}/athletes/{athlete_id}/measurements"
      [] o.name = ResultsFetcher ->
            "/v1/sports/accounts/{account_id}/athletes/{athlete_id}/measurements/{measurement_id}/results"

\* The headers dict generate_query_headers returns when the key field holds key.
QueryHeaders(key) ==
    ("Authorization" :> Bearer(GenerateJwtToken)) @@ ("x-api-key" :> key)

\* The request retrieve_api_key hands to requests.get.
KeyRequest ==
    [kind |-> "key", url |-> "/v1/account/api-key", params |-> EmptyDict,
     headers |-> ("Authorization" :> Bearer(GenerateJwtToken)), sentAt |-> now]

\* The request a fetcher hands to requests.get.
ResourceRequest(o, key, prm) ==
    [kind |-> "resource", url |-> Url(o), params |-> prm,
     headers |-> QueryHeaders(key), sentAt |-> now]

(***************************************************************************)
(* The server: what it may answer to the request in flight.                *)
(***************************************************************************)
\* Responses with a status other than 200: a JSON error body, or no JSON.
Failures(statuses) ==
    {r \in {[status |-> 202, body |-> ErrorBody], [status |-> 204, body |-> NotJson],
            [status |-> 500, body |-> ErrorBody], [status |-> 500, body |-> NotJson]} :
        r.status \in statuses}

KeyResponses ==
    {[status |-> 200, body |-> Json("apikey" :> k)] : k \in Keys}
    \cup {[status |-> 200, body |-> NotJson]}
    \cup Failures(Statuses \ {200})

\* The key of the item list in a page of the fetcher's endpoint.
ItemsKey(o) ==
    CASE o.name = "get_account_athletes" -> "athletes"
      [] o.name = "get_account_teams" -> "teams"
      [] o.name = "get_athlete_measurements" -> "measurements"

\* The server numbers the items of a collection 1, 2, ...: a page of n items
\* answering a request with offset k holds the items k+1 .. k+n.
ReqOffset == IF "offset" \in DOMAIN lastReq.params THEN lastReq.params["offset"] ELSE 0
Page(n) == [i \in 1..n |-> ReqOffset + i]

\* A collection has at most MaxPages pages: the last one says more = false.
MoreFlags == IF Len(responses) + 1 < MaxPages THEN BOOLEAN ELSE {FALSE}

PagedResponses(o) ==
    {[status |-> 200, body |-> Json((ItemsKey(o) :> Page(n)) @@ ("more" :> m))] :
        n \in 0..MaxPageLen, m \in MoreFlags}
    \cup {[status |-> 200, body |-> NotJson]}
    \cup Failures(Statuses \ {200})

FlatResponses(o) ==
    (IF o.name = "get_accounts"
     THEN {[status |-> 200, body |-> Json("accounts" :> a)] : a \in {<<>>, <<"3-99999">>, <<"3-99999", "3-88888">>}}
     ELSE {[status |-> 200, body |-> Json("coachId" :> c)] : c \in {381677}})
    \cup {[status |-> 200, body |-> NotJson]}
    \cup Failures(Statuses \ {200})

ResultsResponses ==
    {[status |-> 200, body |-> Json("measurementId" :> m)] : m \in {4535109, 4535110}}
    \cup {[status |-> 200, body |-> NotJson]}
    \cup {[status |-> 202, body |-> NotJson]}
    \cup Failures(Statuses \ {200, 202})

(***************************************************************************)
(* The client's code after a response.                                     *)
(***************************************************************************)
\* response.json(): the parsed body, or JSONDecodeError.
ParsesAsJson(resp) == resp.body.t = "json"

\* The error branch shared by every method: print the status, print
\* response.json(), return None.  The second print parses the body.
ErrorBranch(resp, printLine, returnLine) ==
    IF ParsesAsJson(resp)
    THEN Return(None, returnLine)
    ELSE Raise("JSONDecodeError", printLine)

\* CloudAPI.retrieve_api_key, from the response on.
RetrieveApiKey(resp) ==
    IF resp.status /= 200
    THEN ErrorBranch(resp, 97, 98)
    ELSE IF ParsesAsJson(resp)
         THEN Return(Str(resp.body.v["apikey"]), 100)
         ELSE Raise("JSONDecodeError", 100)

\* ",".join(variables)
RECURSIVE Join(_)
Join(s) ==
    IF Len(s) = 0 THEN ""
    ELSE IF Len(s) = 1 THEN s[1]
    ELSE s[1] \o "," \o Join(Tail(s))

DefaultVariables == <<"trimp", "trimpPerMinute", "heartRateAverage">>

\* A slip: the variables argument is ignored, the default list is always sent.
InitialParams_DefaultOnly(o) ==
    IF o.name = ResultsFetcher
    THEN ("var" :> Join(DefaultVariables))
    ELSE EmptyDict

\* The params a fetcher starts with.
InitialParams(o) ==
    IF o.name = ResultsFetcher
    THEN LET variables == IF o.variables = None THEN DefaultVariables ELSE o.variables.v
         IN  ("var" :> Join(variables))
    ELSE EmptyDict

\* A slip: the key is retrieved for the first call of the instance only.
NeedsKey_FirstCall == api_key = None /\ calls = 0

\* A slip: the key is retrieved on every call of generate_query_headers.
NeedsKey_Always == TRUE

\* A slip: the retrieval is tried once per instance, whatever it returned.
NeedsKey_Once == api_key = None /\ keyReqs = 0

\* generate_query_headers: "if self.api_key is None".
NeedsKey == api_key = None

\* The paginated fetchers: athletes.extend(page) and params = {"offset": len(athletes)}.
Extend(acc, page) == acc \o page

\* A slip: the offset is the index of the last item fetched, counted from 0.
NextParams_LastIndex(acc) == ("offset" :> Len(acc) - 1)

NextParams(acc) == ("offset" :> Len(acc))

\* A slip: the ceiling is applied one attempt late.
RetriesExhausted_OneLate(rc) == rc > max_retries

\* A slip: the ceiling is applied one attempt early.
RetriesExhausted_OneEarly(rc) == rc >= max_retries - 1

\* get_athlete_measurement_results: "if retry_count >= max_retries".
RetriesExhausted(rc) == rc >= max_retries

\* A slip: exhaustion returns None, as every other failure does.
ExhaustedError_None == None

\* The value get_athlete_measurement_results returns when the retries run out.
ExhaustedError ==
    LET error_message ==
            [text |-> "Error: Maximum retries reached. API still returning 202 Accepted after {max_retries} attempts.",
             max_retries |-> max_retries]
    IN  Dict(("error" :> error_message) @@ ("status_code" :> 202))

\* Source lines of a fetcher: the print that parses an error body, the
\* return None after it, the first parse of a 200 body, the final return.
Lines(o) ==
    CASE o.name = "get_accounts" -> [print |-> 156, none |-> 157, parse |-> 159, ret |-> 159]
      [] o.name = "get_account_coaches" -> [print |-> 238, none |-> 239, parse |-> 241, ret |-> 241]
      [] o.name = "get_account_athletes" -> [print |-> 204, none |-> 205, parse |-> 207, ret |-> 211]
      [] o.name = "get_account_teams" -> [print |-> 295, none |-> 296, parse |-> 298, ret |-> 302]
      [] o.name = "get_athlete_measurements" -> [print |-> 334, none |-> 335, parse |-> 337, ret |-> 341]
      [] o.name = ResultsFetcher -> [print |-> 438, none |-> 439, parse |-> 418, ret |-> 418]

(***************************************************************************)
(* Steps shared by the actions.  Each sets lastReq, sent, keyReqs, pc and  *)
(* result.                                                                 *)
(***************************************************************************)
\* requests.get(url, params, headers=generate_query_headers()) once the key
\* field is settled and holds key.
SendResource(o, key, prm, sentSoFar) ==
    /\ lastReq' = ResourceRequest(o, key, prm)
    /\ sent' = Append(sentSoFar, prm)
    /\ pc' = "res"
    /\ result' = NoResult

\* generate_query_headers as called for a resource request: with no key
\* cached it first calls retrieve_api_key, which sends the key request.
IssueRequest(o, prm, sentSoFar) ==
    IF NeedsKey
    THEN /\ lastReq' = KeyRequest
         /\ keyReqs' = keyReqs + 1
         /\ sent' = sentSoFar
         /\ pc' = "key"
         /\ result' = NoResult
    ELSE /\ SendResource(o, api_key, prm, sentSoFar)
         /\ keyReqs' = keyReqs

\* The fetcher ends: it returns a value or an exception leaves it.
Finish(res) ==
    /\ pc' = "idle"
    /\ result' = res
    /\ UNCHANGED <<lastReq, sent, keyReqs>>

(***************************************************************************)
(* Actions.                                                                *)
(***************************************************************************)
\* A fetcher runs from its entry to its first request.
Invoke(o) ==
    /\ pc = "idle"
    /\ calls' = calls + 1
    /\ calledAt' = now
    /\ op' = o
    /\ items' = <<>>
    /\ more' = TRUE
    /\ params' = InitialParams(o)
    /\ retry_count' = 0
    /\ responses' = <<>>
    /\ delays' = <<>>
    /\ IF o.name = ResultsFetcher /\ ~(retry_count' < max_retries)
       THEN Finish(Return(None, 442))
       ELSE IssueRequest(o, params', <<>>)
    /\ UNCHANGED <<api_key, keyOKs, keyWrites, consumer_id, shared_secret, now>>

\* A fetcher is called by some caller of the instance.
Call(o) ==
    /\ calls < MaxCalls
    /\ Invoke(o)
    /\ UNCHANGED <<cliToken, regVars, exampleVars>>

\* The key request is answered: retrieve_api_key returns, generate_query_headers
\* stores what it returned and builds the headers, the fetcher sends its request.
KeyResponse(resp) ==
    /\ pc = "key"
    /\ LET r == RetrieveApiKey(resp)
       IN  IF r.kind = "raise"
           THEN /\ Finish(r)
                /\ UNCHANGED <<api_key, keyOKs, keyWrites>>
           ELSE /\ api_key' = r.v
                /\ keyWrites' = keyWrites + 1
                /\ keyOKs' = IF r.v = None THEN keyOKs ELSE keyOKs + 1
                /\ SendResource(op, r.v, params, sent)
                /\ keyReqs' = keyReqs
    /\ UNCHANGED <<op, calls, calledAt, items, more, params, retry_count, responses, delays,
                   consumer_id, shared_secret, now, cliToken, regVars, exampleVars>>

\* get_accounts, get_account_coaches: the request is answered.
FlatResponse(resp) ==
    /\ pc = "res"
    /\ op.name \in FlatFetchers
    /\ responses' = Append(responses, resp)
    /\ Finish(IF resp.status /= 200
              THEN ErrorBranch(resp, Lines(op).print, Lines(op).none)
              ELSE IF ~ParsesAsJson(resp)
              THEN Raise("JSONDecodeError", Lines(op).parse)
              ELSE IF op.name = "get_accounts"
              THEN Return(List(resp.body.v["accounts"]), Lines(op).ret)
              ELSE Return(Dict(resp.body.v), Lines(op).ret))
    /\ UNCHANGED <<api_key, keyOKs, keyWrites, op, calls, calledAt, items, more, params, retry_count, delays,
                   consumer_id, shared_secret, now, cliToken, regVars, exampleVars>>

\* get_account_athletes, get_account_teams, get_athlete_measurements: a page
\* request is answered.
PagedResponse(resp) ==
    /\ pc = "res"
    /\ op.name \in PagedFetchers
    /\ responses' = Append(responses, resp)
    /\ IF resp.status /= 200
       THEN /\ Finish(ErrorBranch(resp, Lines(op).print, Lines(op).none))
            /\ UNCHANGED <<items, more, params>>
       ELSE IF ~ParsesAsJson(resp)
       THEN /\ Finish(Raise("JSONDecodeError", Lines(op).parse))
            /\ UNCHANGED <<items, more, params>>
       ELSE /\ items' = Extend(items, resp.body.v[ItemsKey(op)])
            /\ more' = resp.body.v["more"]
            /\ params' = NextParams(items')
            /\ IF more'
               THEN IssueRequest(op, params', sent)
               ELSE Finish(Return(List(items'), Lines(op).ret))
    /\ UNCHANGED <<api_key, keyOKs, keyWrites, op, calls, calledAt, retry_count, delays,
                   consumer_id, shared_secret, now, cliToken, regVars, exampleVars>>

\* get_athlete_measurement_results: a results request is answered.
ResultsResponse(resp) ==
    /\ pc = "res"
    /\ op.name = ResultsFetcher
    /\ responses' = Append(responses, resp)
    /\ IF resp.status = 200
       THEN /\ Finish(IF ParsesAsJson(resp)
                      THEN Return(Dict(resp.body.v), Lines(op).ret)
                      ELSE Raise("JSONDecodeError", Lines(op).parse))
            /\ UNCHANGED retry_count
       ELSE IF resp.status = 202
       THEN /\ retry_count' = retry_count + 1
            /\ IF RetriesExhausted(retry_count')
               THEN Finish(Return(ExhaustedError, 429))
               ELSE /\ pc' = "sleep"
                    /\ UNCHANGED <<lastReq, sent, keyReqs, result>>
       ELSE /\ Finish(ErrorBranch(resp, Lines(op).print, Lines(op).none))
            /\ UNCHANGED retry_count
    /\ UNCHANGED <<api_key, keyOKs, keyWrites, op, calls, calledAt, items, more, params, delays,
                   consumer_id, shared_secret, now, cliToken, regVars, exampleVars>>

\* time.sleep(5) ends: continue, the loop test, the next request.
WakeUp ==
    /\ pc = "sleep"
    /\ now' = now + RetryDelay * TicksPerSecond
    /\ delays' = Append(delays, RetryDelay)
    /\ IF retry_count < max_retries
       THEN IssueRequest(op, params, sent)
       ELSE Finish(Return(None, 442))
    /\ UNCHANGED <<api_key, keyOKs, keyWrites, op, calls, calledAt, items, more, params, retry_count, responses,
                   consumer_id, shared_secret, cliToken, regVars, exampleVars>>

\* Time passes while the client waits for a response or is idle: sleeps
\* aside, at most MaxLatency ticks from one call to the next.
TimePasses ==
    /\ pc \in {"idle", "key", "res"}
    /\ now < calledAt + Len(delays) * RetryDelay * TicksPerSecond + MaxLatency
    /\ now' = now + 1
    /\ UNCHANGED <<clientVars, cliToken, regVars, exampleVars>>

\* jwt_create.py is run with --id cid --secret secret and prints the token.
JwtCreateMain(cid, secret) ==
    /\ cliToken' = [ran |-> TRUE, id |-> cid, secret |-> secret, at |-> now,
                    out |-> Bearer(CreateJwtToken(cid, secret))]
    /\ UNCHANGED <<clientVars, now, regVars, exampleVars>>

(***************************************************************************)
(* registration/register_consumer.py.  Console text is a sequence of       *)
(* one-character strings, so that strip, lower and len are computed.       *)
(***************************************************************************)
API_URL == "https://api.firstbeat.com/v1/account/register"
DEFAULT_TIMEOUT == <<5, 20>>

\* The command lines: --consumer-name absent or given (also empty, also
\* shorter than the prompt would take), --yes, --api-url.
ConsumerNames ==
    {<<>>, <<"a", "b", "c">>, <<" ", "T", "e", "a", "m", "s", " ">>, <<"T", "e", "a", "m", "s">>}

Argvs ==
    [consumer_name : {None} \cup {Str(n) : n \in ConsumerNames},
     yes : BOOLEAN,
     api_url : {API_URL, "http://localhost:8080/register"}]

\* What may be typed at the confirmation prompt.
ConfirmInputs ==
    {<<"y">>, <<"Y">>, <<"y", "e", "s">>, <<" ", "Y", "e", "S", "\t">>, <<"\t", "y", " ">>,
     <<>>, <<"n", "o">>, <<"y", "e">>, <<"y", " ", "e", "s">>, <<"y", "e", "s", "!">>}

Whitespace == {" ", "\t"}

\* str.strip()
RECURSIVE LStrip(_)
LStrip(s) == IF s /= <<>> /\ Head(s) \in Whitespace THEN LStrip(Tail(s)) ELSE s

RECURSIVE RStrip(_)
RStrip(s) ==
    IF s /= <<>> /\ s[Len(s)] \in Whitespace THEN RStrip(SubSeq(s, 1, Len(s) - 1)) ELSE s

Strip(s) == RStrip(LStrip(s))

\* str.lower(), on the letters of the inputs.
LowerOf ==
    ("Y" :> "y") @@ ("E" :> "e") @@ ("S" :> "s") @@ ("N" :> "n") @@ ("O" :> "o") @@ ("T" :> "t")

Lower(s) == [i \in 1..Len(s) |-> IF s[i] \in DOMAIN LowerOf THEN LowerOf[s[i]] ELSE s[i]]

\* The truth value of args.consumer_name in "args.consumer_name or ...".
Truthy(v) == v /= None /\ v.v /= <<>>

\* prompt_consumer_name: the test of one line typed at the prompt.
NameAccepted(text) == ~(Strip(text) = <<>>) /\ ~(Len(Strip(text)) < 5)

\* confirm_action: the test of the line typed at the prompt.
Confirmed(text) == Lower(Strip(text)) \in {<<"y">>, <<"y", "e", "s">>}

\* The request register_consumer hands to session.post.
PostRequest(name, url) ==
    [url |-> url, json |-> ("consumerName" :> name), timeout |-> DEFAULT_TIMEOUT]

\* How session.post may end: a transport exception, or a response of any
\* status whose body is a JSON object, the JSON null, or no JSON.
RegStatuses == {200, 204, 404, 500}

RegBodies(name) ==
    {Json(Dict(("consumerName" :> name) @@ ("id" :> "c1") @@ ("sharedSecret" :> "s1"))),
     Json(Dict("message" :> "error")),
     Json(None),
     NotJson}

PostOutcomes(name) ==
    {[kind |-> "exception", exc |-> e] : e \in {"ConnectionError", "Timeout"}}
    \cup {[kind |-> "response", status |-> st, body |-> b] : st \in RegStatuses, b \in RegBodies(name)}

NoOutcome == [kind |-> "none"]

\* raise RegistrationError(...) from exc
RegistrationError(cause, line) ==
    [kind |-> "raise", v |-> [t |-> "exception", v |-> "RegistrationError", cause |-> cause],
     line |-> line]

\* A slip: only the server errors are taken for errors.
HttpErrorStatus_ServerOnly(status) == 500 <= status /\ status < 600

\* response.raise_for_status() raises HTTPError.
HttpErrorStatus(status) == 400 <= status /\ status < 600

\* A slip: an invalid JSON payload gives None, as the fetchers' failures do.
RegisterConsumer_NoneOnInvalidJson(out) ==
    IF out.kind = "exception"
    THEN RegistrationError(out.exc, 112)
    ELSE IF HttpErrorStatus(out.status)
    THEN RegistrationError("HTTPError", 112)
    ELSE IF ParsesAsJson(out)
    THEN Return(out.body.v, 115)
    ELSE Return(None, 117)

\* register_consumer, from the end of session.post on.
RegisterConsumer(out) ==
    IF out.kind = "exception"
    THEN RegistrationError(out.exc, 112)
    ELSE IF HttpErrorStatus(out.status)
    THEN RegistrationError("HTTPError", 112)
    ELSE IF ParsesAsJson(out)
    THEN Return(out.body.v, 115)
    ELSE RegistrationError("JSONDecodeError", 117)

\* main, from the end of register_consumer on: the handler of
\* RegistrationError, or announce_success and print_next_steps, which call
\* credentials.get.
MainAfterRegister(cred) ==
    IF cred.kind = "raise"
    THEN Return(1, 168)
    ELSE IF cred.v.t = "dict"
    THEN Return(0, 172)
    ELSE Raise("AttributeError", 124)

\* raise SystemExit(main()): the exit status of the process.  An exception
\* that leaves main ends the interpreter with status 1.
ExitStatus(res) == IF res.kind = "return" THEN res.v ELSE 1

\* main from confirm_action on, once consumer_name is settled: with --yes the
\* POST is sent at once, otherwise the confirmation prompt is shown.
ConfirmAction(name, a) ==
    IF a.yes
    THEN /\ regPc' = "post"
         /\ posts' = Append(posts, PostRequest(name, a.api_url))
    ELSE /\ regPc' = "confirm"
         /\ posts' = posts

\* The script is started: parse_args, then the name of the command line or
\* the prompt for one.
Main(argv) ==
    /\ regPc = "start"
    /\ args' = argv
    /\ IF Truthy(argv.consumer_name)
       THEN /\ consumer_name' = argv.consumer_name
            /\ ConfirmAction(argv.consumer_name.v, argv)
       ELSE /\ regPc' = "name"
            /\ UNCHANGED <<consumer_name, posts>>
    /\ UNCHANGED <<confirmInput, postOutcome, credentials, mainResult, clientVars, now, cliToken, exampleVars>>

\* prompt_consumer_name: a line is typed at the name prompt.
NameInput(text) ==
    /\ regPc = "name"
    /\ IF NameAccepted(text)
       THEN /\ consumer_name' = Str(Strip(text))
            /\ ConfirmAction(Strip(text), args)
       ELSE UNCHANGED <<regPc, consumer_name, posts>>
    /\ UNCHANGED <<args, confirmInput, postOutcome, credentials, mainResult, clientVars, now,
                   cliToken, exampleVars>>

\* confirm_action: a line is typed at the confirmation prompt.
ConfirmInput(text) ==
    /\ regPc = "confirm"
    /\ confirmInput' = [given |-> TRUE, text |-> text]
    /\ IF Confirmed(text)
       THEN /\ regPc' = "post"
            /\ posts' = Append(posts, PostRequest(consumer_name.v, args.api_url))
            /\ UNCHANGED mainResult
       ELSE /\ regPc' = "done"
            /\ mainResult' = Return(0, 158)
            /\ UNCHANGED posts
    /\ UNCHANGED <<args, consumer_name, postOutcome, credentials, clientVars, now, cliToken, exampleVars>>

\* session.post ends: register_consumer returns or raises, main ends.
PostEnds(out) ==
    /\ regPc = "post"
    /\ postOutcome' = out
    /\ credentials' = RegisterConsumer(out)
    /\ mainResult' = MainAfterRegister(credentials')
    /\ regPc' = "done"
    /\ UNCHANGED <<args, consumer_name, confirmInput, posts, clientVars, now, cliToken, exampleVars>>

\* The script has not been started.
NotStarted ==
    /\ regPc = "start"
    /\ args = [consumer_name |-> None, yes |-> FALSE, api_url |-> API_URL]
    /\ consumer_name = None
    /\ confirmInput = [given |-> FALSE]
    /\ posts = <<>>
    /\ postOutcome = NoOutcome
    /\ credentials = NoResult
    /\ mainResult = NoResult

\* CloudAPI(api, shared_secret, consumer_id), and the script not yet run.
Constructed(secret, cid) ==
    /\ api_key = None
    /\ consumer_id = cid
    /\ shared_secret = secret
    /\ op = NoOp
    /\ pc = "idle"
    /\ items = <<>>
    /\ more = TRUE
    /\ params = EmptyDict
    /\ retry_count = 0
    /\ result = NoResult
    /\ now = 0
    /\ lastReq = NoRequest
    /\ calls = 0
    /\ calledAt = 0
    /\ keyReqs = 0
    /\ keyOKs = 0
    /\ keyWrites = 0
    /\ responses = <<>>
    /\ sent = <<>>
    /\ delays = <<>>
    /\ cliToken = NoCliToken

(***************************************************************************)
(* quickstart/cloud-api-example.py.  main calls the fetchers of one        *)
(* CloudAPI instance one after the other; a step of main runs from the     *)
(* return of a fetcher, or from a line typed at a prompt, to the first     *)
(* request of the next fetcher or to the end of main.  The account,        *)
(* athlete and measurement ids main picks are the fixed ids of the URLs.   *)
(***************************************************************************)
\* The credentials main finds on its command line or in its environment:
\* each one given, empty or missing.
ExampleCredentials ==
    [shared_secret : {None, Str("")} \cup {Str(x) : x \in Secrets},
     consumer_id : {None, Str("")} \cup {Str(x) : x \in ConsumerIds}]

\* "not shared_secret", "not consumer_id": None and the empty string.
Falsy(v) == v = None \/ v = Str("")

\* What may be typed at the prompt of select_athlete: text that is no
\* number, or a number.
AthleteSelections ==
    {[t |-> "text"]} \cup {[t |-> "int", v |-> n] : n \in 0..(MaxPages * MaxPageLen + 1)}

\* What may be typed at the prompt of select_account.
AccountSelections == {[t |-> "text"]} \cup {[t |-> "int", v |-> n] : n \in 0..3}

\* select_account, select_athlete: int(selection) and 1 <= index <= len(list).
ValidSelection(sel, list) == sel.t = "int" /\ 1 <= sel.v /\ sel.v <= Len(list)

\* The variables main asks the results for.
ExampleVariables == List(<<"trimp", "trimpPerMinute", "heartRateAverage">>)

\* sys.exit(code)
SysExit(code, line) == [kind |-> "exit", code |-> code, line |-> line]

\* main calls a fetcher of cloud_api.
Fetch(name, variables) ==
    /\ Invoke([name |-> name, variables |-> variables])
    /\ fetches' = Append(fetches, name)
    /\ exPc' = name
    /\ UNCHANGED exResult

\* Of the coaches and of the teams main reads only whether they are None,
\* to print them: the model keeps the type of what the fetcher returned.
Seen(v) == [t |-> v.t]

\* main ends.
ExampleEnds(res) ==
    /\ exPc' = "done"
    /\ exResult' = res
    /\ UNCHANGED <<clientVars, now, fetches>>

\* The fetcher main waits for has returned.
Returned(name) == exPc = name /\ pc = "idle" /\ result.kind = "return"

\* main: "if accounts is None".
AccountsMissing(v) == v = None

\* A slip: only None is checked for, an empty list goes on.
NoneOrEmpty_NoneOnly(v) == v = None

\* main: "if account_athletes is None or len(account_athletes) == 0", and
\* the same test of athlete_measurements.
NoneOrEmpty(v) == v = None \/ Len(v.v) = 0

\* main is started: the credentials, the CloudAPI instance, get_accounts.
ExampleStart(cred) ==
    /\ exPc = "start"
    /\ IF Falsy(cred.shared_secret) \/ Falsy(cred.consumer_id)
       THEN ExampleEnds(Return(None, 124))
       ELSE /\ Constructed(cred.shared_secret.v, cred.consumer_id.v)
            /\ Fetch("get_accounts", None)
    /\ UNCHANGED <<accounts, account_coaches, account_teams, account_athletes,
                   athlete_measurements, athlete_measurement_results, cliToken, regVars>>

\* get_accounts has returned: the check for None, select_account,
\* get_account_coaches.
AfterAccounts ==
    /\ Returned("get_accounts")
    /\ accounts' = result.v
    /\ IF AccountsMissing(accounts')
       THEN ExampleEnds(Return(None, 132))
       ELSE IF Len(accounts'.v) = 0
       THEN ExampleEnds(SysExit(0, 48))
       ELSE IF Len(accounts'.v) = 1
       THEN Fetch("get_account_coaches", None)
       ELSE /\ exPc' = "select_account"
            /\ UNCHANGED <<clientVars, now, fetches, exResult>>
    /\ UNCHANGED <<account_coaches, account_teams, account_athletes,
                   athlete_measurements, athlete_measurement_results, cliToken, regVars>>

\* select_account: a line is typed at the prompt.
AccountInput(sel) ==
    /\ exPc = "select_account"
    /\ IF ValidSelection(sel, accounts.v)
       THEN Fetch("get_account_coaches", None)
       ELSE UNCHANGED <<clientVars, now, fetches, exPc, exResult>>
    /\ UNCHANGED <<accounts, account_coaches, account_teams, account_athletes,
                   athlete_measurements, athlete_measurement_results, cliToken, regVars>>

\* get_account_coaches has returned: its result is printed, get_account_teams.
AfterCoaches ==
    /\ Returned("get_account_coaches")
    /\ account_coaches' = Seen(result.v)
    /\ Fetch("get_account_teams", None)
    /\ UNCHANGED <<accounts, account_teams, account_athletes,
                   athlete_measurements, athlete_measurement_results, cliToken, regVars>>

\* get_account_teams has returned: its result is printed, get_account_athletes.
AfterTeams ==
    /\ Returned("get_account_teams")
    /\ account_teams' = Seen(result.v)
    /\ Fetch("get_account_athletes", None)
    /\ UNCHANGED <<accounts, account_coaches, account_athletes,
                   athlete_measurements, athlete_measurement_results, cliToken, regVars>>

\* get_account_athletes has returned: the check for None or empty,
\* select_athlete, get_athlete_measurements.
AfterAthletes ==
    /\ Returned("get_account_athletes")
    /\ account_athletes' = result.v
    /\ IF NoneOrEmpty(account_athletes')
       THEN ExampleEnds(Return(None, 157))
       ELSE IF Len(account_athletes'.v) = 1
       THEN Fetch("get_athlete_measurements", None)
       ELSE /\ exPc' = "select_athlete"
            /\ UNCHANGED <<clientVars, now, fetches, exResult>>
    /\ UNCHANGED <<accounts, account_coaches, account_teams,
                   athlete_measurements, athlete_measurement_results, cliToken, regVars>>

\* select_athlete: a line is typed at the prompt.
AthleteInput(sel) ==
    /\ exPc = "select_athlete"
    /\ IF ValidSelection(sel, account_athletes.v)
       THEN Fetch("get_athlete_measurements", None)
       ELSE UNCHANGED <<clientVars, now, fetches, exPc, exResult>>
    /\ UNCHANGED <<accounts, account_coaches, account_teams, account_athletes,
                   athlete_measurements, athlete_measurement_results, cliToken, regVars>>

\* get_athlete_measurements has returned: the check for None or empty,
\* get_athlete_measurement_results.
AfterMeasurements ==
    /\ Returned("get_athlete_measurements")
    /\ athlete_measurements' = result.v
    /\ IF NoneOrEmpty(athlete_measurements')
       THEN ExampleEnds(Return(None, 169))
       ELSE Fetch(ResultsFetcher, ExampleVariables)
    /\ UNCHANGED <<accounts, account_coaches, account_teams, account_athletes,
                   athlete_measurement_results, cliToken, regVars>>

\* get_athlete_measurement_results has returned: its result is printed, main ends.
AfterResults ==
    /\ Returned(ResultsFetcher)
    /\ athlete_measurement_results' = result.v
    /\ ExampleEnds(Return(None, 184))
    /\ UNCHANGED <<accounts, account_coaches, account_teams, account_athletes,
                   athlete_measurements, cliToken, regVars>>

\* An exception has left the fetcher main waits for: main has no handler, the
\* exception leaves main.
FetchRaised ==
    /\ exPc \in FlatFetchers \cup PagedFetchers \cup {ResultsFetcher}
    /\ pc = "idle"
    /\ result.kind = "raise"
    /\ ExampleEnds(result)
    /\ UNCHANGED <<accounts, account_coaches, account_teams, account_athletes,
                   athlete_measurements, athlete_measurement_results, cliToken, regVars>>

\* main has not been started.
ExampleNotStarted ==
    /\ exPc = "start"
    /\ accounts = None
    /\ account_coaches = None
    /\ account_teams = None
    /\ account_athletes = None
    /\ athlete_measurements = None
    /\ athlete_measurement_results = None
    /\ fetches = <<>>
    /\ exResult = NoResult

Init == Constructed("s1", "c1") /\ NotStarted /\ ExampleNotStarted

Next ==
    \/ \E o \in Ops : Call(o)
    \/ \E resp \in KeyResponses : KeyResponse(resp)
    \/ op.name \in FlatFetchers /\ \E resp \in FlatResponses(op) : FlatResponse(resp)
    \/ op.name \in PagedFetchers /\ \E resp \in PagedResponses(op) : PagedResponse(resp)
    \/ \E resp \in ResultsResponses : ResultsResponse(resp)
    \/ WakeUp
    \/ TimePasses

Spec == Init /\ [][Next]_vars

(***************************************************************************)
(* Every fetcher, with no time passing but in the sleeps: the code's steps *)
(* alone, for what does not depend on the clock.                           *)
(***************************************************************************)
NextCalls ==
    \/ \E o \in Ops : Call(o)
    \/ \E resp \in KeyResponses : KeyResponse(resp)
    \/ op.name \in FlatFetchers /\ \E resp \in FlatResponses(op) : FlatResponse(resp)
    \/ op.name \in PagedFetchers /\ \E resp \in PagedResponses(op) : PagedResponse(resp)
    \/ \E resp \in ResultsResponses : ResultsResponse(resp)
    \/ WakeUp

SpecCalls == Init /\ [][NextCalls]_vars

(***************************************************************************)
(* get_athlete_measurement_results alone: any sequence of calls of it.     *)
(***************************************************************************)
NextPoll ==
    \/ \E o \in {x \in Ops : x.name = ResultsFetcher} : Call(o)
    \/ \E resp \in KeyResponses : KeyResponse(resp)
    \/ \E resp \in ResultsResponses : ResultsResponse(resp)
    \/ WakeUp
    \/ TimePasses

SpecPoll == Init /\ [][NextPoll]_vars

(***************************************************************************)
(* The paginated fetchers alone: any sequence of calls of them.  They read *)
(* the clock only to sign tokens, so the clock stands still here.          *)
(***************************************************************************)
NextPaged ==
    \/ \E o \in {x \in Ops : x.name \in PagedFetchers} : Call(o)
    \/ \E resp \in KeyResponses : KeyResponse(resp)
    \/ op.name \in PagedFetchers /\ \E resp \in PagedResponses(op) : PagedResponse(resp)

SpecPaged == Init /\ [][NextPaged]_vars

(***************************************************************************)
(* The two signers side by side: the script run on any credentials at any  *)
(* time, and a client built on any credentials that calls get_accounts.    *)
(***************************************************************************)
\* Time passes before and between the runs.
IdleWait ==
    /\ pc = "idle"
    /\ now < MaxClock
    /\ now' = now + 1
    /\ UNCHANGED <<clientVars, cliToken, regVars, exampleVars>>

InitToken == NotStarted /\ ExampleNotStarted /\ \E secret \in Secrets, cid \in ConsumerIds : Constructed(secret, cid)

NextToken ==
    \/ \E cid \in ConsumerIds, secret \in Secrets : JwtCreateMain(cid, secret)
    \/ Call([name |-> "get_accounts", variables |-> None])
    \/ \E resp \in KeyResponses : KeyResponse(resp)
    \/ op.name \in FlatFetchers /\ \E resp \in FlatResponses(op) : FlatResponse(resp)
    \/ IdleWait

SpecToken == InitToken /\ [][NextToken]_vars

(***************************************************************************)
(* One run of the registration script, on any command line, with any lines *)
(* typed at its prompts and any end of its POST.                           *)
(***************************************************************************)
NextRegistration ==
    \/ \E argv \in Argvs : Main(argv)
    \/ \E text \in ConsumerNames : NameInput(text)
    \/ \E text \in ConfirmInputs : ConfirmInput(text)
    \/ regPc = "post" /\ \E out \in PostOutcomes(consumer_name.v) : PostEnds(out)

SpecRegistration == Init /\ [][NextRegistration]_vars

(***************************************************************************)
(* get_athlete_measurement_results with its scheduling: the transport      *)
(* answers every request (requests.get returns) and every sleep ends.  The *)
(* clock moves in the sleeps only.                                         *)
(***************************************************************************)
NextPollSteps ==
    \/ \E o \in {x \in Ops : x.name = ResultsFetcher} : Call(o)
    \/ \E resp \in KeyResponses : KeyResponse(resp)
    \/ \E resp \in ResultsResponses : ResultsResponse(resp)
    \/ WakeUp

FairPoll ==
    /\ Init
    /\ [][NextPollSteps]_vars
    /\ WF_vars(\E resp \in KeyResponses : KeyResponse(resp))
    /\ WF_vars(\E resp \in ResultsResponses : ResultsResponse(resp))
    /\ WF_vars(WakeUp)

(***************************************************************************)
(* One run of the example program, with any credentials given or missing,  *)
(* any answers of the server and any lines typed at its prompts.  The      *)
(* clock moves in the sleeps only.                                         *)
(***************************************************************************)
NextExample ==
    \/ \E cred \in ExampleCredentials : ExampleStart(cred)
    \/ AfterAccounts
    \/ \E sel \in AccountSelections : AccountInput(sel)
    \/ AfterCoaches
    \/ AfterTeams
    \/ AfterAthletes
    \/ \E sel \in AthleteSelections : AthleteInput(sel)
    \/ AfterMeasurements
    \/ AfterResults
    \/ FetchRaised
    \/ \E resp \in KeyResponses : KeyResponse(resp)
    \/ op.name \in FlatFetchers /\ \E resp \in FlatResponses(op) : FlatResponse(resp)
    \/ op.name \in PagedFetchers /\ \E resp \in PagedResponses(op) : PagedResponse(resp)
    \/ \E resp \in ResultsResponses : ResultsResponse(resp)
    \/ WakeUp

SpecExample == Init /\ [][NextExample]_vars

(***************************************************************************)
(* Properties.                                                             *)
(***************************************************************************)
Last(seq) == seq[Len(seq)]

\* The results responses of this call are k times 202 and then a 200 with a
\* JSON body.
ProcessingThenOK(k) ==
    /\ Len(responses) = k + 1
    /\ \A i \in 1..k : responses[i].status = 202
    /\ responses[k + 1].status = 200
    /\ ParsesAsJson(responses[k + 1])

\* C1: get_athlete_measurement_results, for every k in 0..4: when the server
\* answers 202 k times and then 200 (with a body that parses), the call has
\* sent exactly k+1 results requests, has slept exactly k times, 5 seconds
\* each, and returns the parsed body of the 200 response.  One delay after
\* each 202: while the call runs, there are never more delays than 202s, and
\* never more requests than delays plus one.  And the call does go on to the
\* next request: after at most four responses, all 202, it has not returned.
C1_PollingSuccess ==
    op.name = ResultsFetcher =>
        /\ \A k \in 0..4 :
              ProcessingThenOK(k) =>
                  /\ pc = "idle"
                  /\ Len(sent) = k + 1
                  /\ delays = [i \in 1..k |-> 5]
                  /\ result.kind = "return"
                  /\ result.v = Dict(responses[k + 1].body.v)
        /\ Len(delays) <= Cardinality({i \in 1..Len(responses) : responses[i].status = 202})
        /\ Len(sent) <= Len(delays) + 1
        /\ (Len(responses) <= 4 /\ \A i \in 1..Len(responses) : responses[i].status = 202) =>
              result.kind /= "return"

\* C1 witness: four 202s, then a 200 whose body is returned.
C1_Witness ==
    /\ op.name = ResultsFetcher
    /\ ProcessingThenOK(4)
    /\ result.kind = "return"
    /\ Len(delays) = 4

\* The first five results responses of this call are all 202.
FiveProcessing ==
    /\ Len(responses) >= 5
    /\ \A i \in 1..5 : responses[i].status = 202

\* C2: get_athlete_measurement_results: when the server answers 202 to five
\* results requests in a row, the call is over after the fifth response: it
\* has sent five requests and slept four times, and it returns (no exception,
\* not None) a dict whose status_code is 202 and whose error names the
\* ceiling 5.  The dict has an "error" key, which no success payload has.
C2_RetryExhaustion ==
    (op.name = ResultsFetcher /\ FiveProcessing) =>
        /\ pc = "idle"
        /\ Len(responses) = 5
        /\ Len(sent) = 5
        /\ Len(delays) = 4
        /\ result.kind = "return"
        /\ result.v.t = "dict"
        /\ DOMAIN result.v.v = {"error", "status_code"}
        /\ result.v.v["status_code"] = 202
        /\ result.v.v["error"].max_retries = 5
        /\ \A r \in ResultsResponses :
              (r.status = 200 /\ ParsesAsJson(r)) => "error" \notin DOMAIN r.body.v

\* C2 witness: the fifth 202 has been answered with the error value.
C2_Witness ==
    /\ op.name = ResultsFetcher
    /\ FiveProcessing
    /\ result.kind = "return"

\* C3: get_athlete_measurement_results: once a response has a status
\* other than 200 and 202, at any attempt, the call is over and has returned
\* None, with no request and no delay after that response.
C3_OtherStatusReturnsNone ==
    (op.name = ResultsFetcher /\ responses /= <<>> /\ Last(responses).status \notin {200, 202}) =>
        /\ pc = "idle"
        /\ result.kind = "return"
        /\ result.v = None
        /\ Len(sent) = Len(responses)
        /\ Len(delays) = Len(responses) - 1

\* Every page response of this call so far is a 200 with a JSON body.
AllPagesOK == \A i \in 1..Len(responses) : responses[i].status = 200 /\ ParsesAsJson(responses[i])

\* The item list and the more flag of the i-th page the server sent in this call.
PageItems(i) == responses[i].body.v[ItemsKey(op)]
PageMore(i) == responses[i].body.v["more"]

\* The items of the first n pages the server sent, in the order received.
RECURSIVE ItemsUpTo(_)
ItemsUpTo(n) == IF n = 0 THEN <<>> ELSE ItemsUpTo(n - 1) \o PageItems(n)

\* C4: the paginated fetchers, while every page succeeds (200 with a JSON
\* body): the first request has no offset parameter, the i-th request has
\* offset equal to the number of items in the pages 1..i-1, there is one
\* request per page and none after a page with more = false; at the first
\* page with more = false the call is over and returns the concatenation of
\* the pages' item lists in the order received, and it does not return
\* after a page with more = true.
C4_Pagination ==
    (op.name \in PagedFetchers /\ AllPagesOK) =>
        LET n == Len(responses)
        IN  /\ \A i \in 1..Len(sent) :
                  sent[i] = IF i = 1 THEN EmptyDict ELSE ("offset" :> Len(ItemsUpTo(i - 1)))
            /\ Len(sent) \in {n, n + 1}
            /\ \A i \in 1..(n - 1) : PageMore(i)
            /\ (n > 0 /\ ~PageMore(n)) =>
                  /\ pc = "idle"
                  /\ Len(sent) = n
                  /\ result.kind = "return"
                  /\ result.v = List(ItemsUpTo(n))
            /\ (n > 0 /\ PageMore(n)) => result.kind /= "return"

\* C4 witness: pages of sizes 2, 2, 1 give 5 items, with offsets absent, 2, 4.
C4_Witness ==
    /\ op.name \in PagedFetchers
    /\ AllPagesOK
    /\ Len(responses) = 3
    /\ sent = <<EmptyDict, ("offset" :> 2), ("offset" :> 4)>>
    /\ result.kind = "return"
    /\ result.v = List(<<1, 2, 3, 4, 5>>)

\* C5: the paginated fetchers: once a page response, the first or a
\* later one, has a failure status, the call is over and has returned None
\* (not the items accumulated), with no request after that response.
C5_PageFailureReturnsNone ==
    (op.name \in PagedFetchers /\ responses /= <<>> /\ Last(responses).status /= 200) =>
        /\ pc = "idle"
        /\ result.kind = "return"
        /\ result.v = None
        /\ Len(sent) = Len(responses)

\* This step hands a resource request to requests.get.
SendsResource == pc' = "res" /\ (Len(sent') = Len(sent) + 1 \/ calls' = calls + 1)

\* C6 as claimed: once any request has been sent on the instance, exactly
\* one key-retrieval request has been sent, the first request.
C6_KeyRetrievedExactlyOnce ==
    lastReq.kind /= "none" => keyReqs = 1

\* C6 amended: the first request of an instance is a key retrieval; a key
\* retrieval is sent only while no key is cached, and while none is cached
\* every resource request is sent straight after a key retrieval returned;
\* at most one retrieval ever returns a key, and once a key is cached no
\* key-retrieval request is sent again.
C6_KeyRetrievedUntilCached ==
    /\ [](lastReq.kind /= "none" => keyReqs >= 1)
    /\ [](keyOKs <= 1 /\ (api_key /= None <=> keyOKs = 1))
    /\ [][/\ keyReqs' /= keyReqs => (api_key = None /\ keyReqs' = keyReqs + 1 /\ pc' = "key")
          /\ api_key /= None => keyReqs' = keyReqs
          /\ (SendsResource /\ api_key = None) => pc = "key"]_vars

\* C6 witness: the second of two calls has sent its resource request with the
\* key the first call retrieved, after a single key retrieval.
C6_Witness ==
    /\ calls = 2
    /\ lastReq.kind = "resource"
    /\ api_key /= None
    /\ keyReqs = 1

\* The token in the Authorization header of the last request.
LastToken == lastReq.headers["Authorization"].token

\* C7: a resource request carries exactly an Authorization header with a
\* Bearer token signed by the instance and an x-api-key header holding the
\* cached key, which is a key and not None; a key-retrieval request carries the
\* Authorization header alone.
C7_RequestHeaders ==
    /\ lastReq.kind = "resource" =>
          /\ DOMAIN lastReq.headers = {"Authorization", "x-api-key"}
          /\ lastReq.headers["Authorization"].scheme = "Bearer"
          /\ LastToken.key = shared_secret
          /\ lastReq.headers["x-api-key"] = api_key
          /\ lastReq.headers["x-api-key"] /= None
    /\ lastReq.kind = "key" =>
          /\ DOMAIN lastReq.headers = {"Authorization"}
          /\ lastReq.headers["Authorization"].scheme = "Bearer"
          /\ LastToken.key = shared_secret

\* C8: the token of every request, of either kind, was generated for it: it
\* is issued by the instance's consumer id, signed with its secret, issued in
\* the very second the request is sent (so it is no token of an earlier
\* request kept across a delay or a response), and the request is sent
\* inside its validity window, issued-at <= send time < expiry.
C8_TokenPerRequest ==
    lastReq.kind /= "none" =>
        LET p == LastToken.payload
        IN  /\ p.iss = consumer_id
            /\ LastToken.key = shared_secret
            /\ p.iat * TicksPerSecond <= lastReq.sentAt
            /\ lastReq.sentAt < (p.iat + 1) * TicksPerSecond
            /\ lastReq.sentAt < p.exp * TicksPerSecond

\* C8 witness: the fifth attempt of a polling call, sent after four delays
\* and after a key retrieval that ran first in the same attempt.
C8_Witness ==
    /\ op.name = ResultsFetcher
    /\ lastReq.kind = "resource"
    /\ Len(sent) = 5
    /\ Len(delays) = 4
    /\ keyOKs = 0
    /\ lastReq.sentAt >= 4 * 5 * TicksPerSecond

\* A payload for issuer cid made at clock reading at (in ticks): issued-at is
\* the whole seconds of at, expiry is 300 later.
PayloadFor(p, cid, at) ==
    /\ p.iss = cid
    /\ p.iat * TicksPerSecond <= at
    /\ at < (p.iat + 1) * TicksPerSecond
    /\ p.exp - p.iat = 300

\* C9: the payload of a token of either signer has issuer equal to the
\* consumer id given, issued-at equal to the current time in whole seconds and
\* expiry 300 later; run on the same consumer id in the same second, the
\* script and the client produce the same payload.
C9_TokenPayload ==
    /\ cliToken.ran => PayloadFor(cliToken.out.token.payload, cliToken.id, cliToken.at)
    /\ lastReq.kind /= "none" => PayloadFor(LastToken.payload, consumer_id, lastReq.sentAt)
    /\ (/\ cliToken.ran
        /\ lastReq.kind /= "none"
        /\ cliToken.id = consumer_id
        /\ cliToken.at \div TicksPerSecond = lastReq.sentAt \div TicksPerSecond) =>
            cliToken.out.token.payload = LastToken.payload

\* C9 witness: both signers have run on the same consumer id in the same
\* second, not at the start of it.
C9_Witness ==
    /\ cliToken.ran
    /\ lastReq.kind /= "none"
    /\ cliToken.id = consumer_id
    /\ cliToken.at \div TicksPerSecond = lastReq.sentAt \div TicksPerSecond
    /\ cliToken.at % TicksPerSecond /= 0
    /\ cliToken.at > TicksPerSecond

\* C10 as claimed: the field is assigned at most once after construction, and
\* a key once fetched stays: the field holds a key whenever a retrieval has
\* returned one, and only one ever has.
C10_KeyWrittenOnce ==
    /\ keyWrites <= 1
    /\ keyOKs >= 1 => (api_key /= None /\ keyOKs = 1)

\* C10 amended: the field is assigned a fetched key at most once per
\* instance; while retrievals fail it is assigned None again each time; once
\* it holds a fetched key it is never assigned again and never changes.
C10_KeyFetchedOnce ==
    /\ [](keyOKs <= 1 /\ keyOKs <= keyWrites)
    /\ [](keyOKs >= 1 => api_key /= None)
    /\ [][/\ api_key /= None => (api_key' = api_key /\ keyWrites' = keyWrites)
          /\ keyWrites' /= keyWrites => (api_key = None /\ keyWrites' = keyWrites + 1)]_vars

\* C10 witness: the field holds a fetched key, assigned after an earlier
\* retrieval had failed and assigned None, and a second call has run on it.
C10_Witness ==
    /\ api_key /= None
    /\ keyWrites = 2
    /\ calls = 2
    /\ Len(responses) >= 1

\* register_consumer raised RegistrationError.
RaisedRegistrationError == credentials.kind = "raise" /\ credentials.v.v = "RegistrationError"

\* C11: register_consumer: when session.post ends in a transport exception,
\* register_consumer raises RegistrationError whose cause is that exception;
\* when the response is a 200 whose body is not JSON, it raises
\* RegistrationError too; and whenever register_consumer raised
\* RegistrationError, main returns a non-zero exit code and the process ends
\* with it.
C11_RegistrationErrors ==
    /\ postOutcome.kind = "exception" =>
          /\ RaisedRegistrationError
          /\ credentials.v.cause = postOutcome.exc
    /\ (postOutcome.kind = "response" /\ postOutcome.status = 200 /\ postOutcome.body = NotJson) =>
          RaisedRegistrationError
    /\ RaisedRegistrationError =>
          /\ regPc = "done"
          /\ mainResult.kind = "return"
          /\ mainResult.v /= 0
          /\ ExitStatus(mainResult) /= 0

\* C11 witness: the POST was answered 200 with a body that is not JSON, and
\* main has returned 1.
C11_Witness ==
    /\ postOutcome.kind = "response"
    /\ postOutcome.status = 200
    /\ postOutcome.body = NotJson
    /\ mainResult = Return(1, 168)

\* The call's resource request was sent after a key retrieval that failed:
\* it carries None as its key.
SentWithoutKey == lastReq.kind = "resource" /\ lastReq.headers["x-api-key"] = None

\* C12: get_accounts and get_account_coaches: once the response has a status
\* outside 200..299 the call is over and has returned None; no exception
\* leaves the call from a failure branch, the fetcher's own or the one of
\* retrieve_api_key; and a call whose key retrieval failed returns None.
C12_AbsenceOnFailure ==
    op.name \in FlatFetchers =>
        /\ (responses /= <<>> /\ Last(responses).status \notin 200..299) =>
              /\ pc = "idle"
              /\ result.kind = "return"
              /\ result.v = None
        /\ result.kind = "raise" => result.line \notin {97, Lines(op).print}
        /\ (pc = "idle" /\ SentWithoutKey) =>
              /\ result.kind = "return"
              /\ result.v = None

\* C13: the paginated fetchers, when a call is over: it has returned the
\* empty list exactly when every page request succeeded, up to a page with
\* more = false, and the pages held no item in all, and it has returned None
\* exactly when a page request was answered with a failure status.
C13_EmptyVersusNone ==
    (op.name \in PagedFetchers /\ pc = "idle") =>
        /\ (result.kind = "return" /\ result.v = List(<<>>))
              <=> (/\ responses /= <<>>
                   /\ AllPagesOK
                   /\ ~PageMore(Len(responses))
                   /\ ItemsUpTo(Len(responses)) = <<>>)
        /\ (result.kind = "return" /\ result.v = None)
              <=> (responses /= <<>> /\ Last(responses).status /= 200)

\* The var parameter a call of get_athlete_measurement_results is to send.
ExpectedVar ==
    IF op.variables = None THEN "trimp,trimpPerMinute,heartRateAverage" ELSE "hr,epoc"

\* C14: get_athlete_measurement_results: every results request of a call has
\* the same URL, the one of the results endpoint, and the same parameters:
\* var alone, the comma-joined variable list, the default list when none is
\* given.  A delay happens only after a 202 response and before the next
\* attempt: the i-th delay follows the i-th response, a 202, the client
\* sleeps only when the last response is a 202, and there is at most one
\* request more than there are delays.
C14_IdenticalRetries ==
    op.name = ResultsFetcher =>
        /\ \A i \in 1..Len(sent) : sent[i] = ("var" :> ExpectedVar)
        /\ lastReq.kind = "resource" =>
              /\ lastReq.url =
                    "/v1/sports/accounts/{account_id}/athletes/{athlete_id}/measurements/{measurement_id}/results"
              /\ lastReq.params = ("var" :> ExpectedVar)
        /\ Len(delays) <= Len(responses)
        /\ \A i \in 1..Len(delays) : responses[i].status = 202
        /\ pc = "sleep" => Last(responses).status = 202
        /\ Len(sent) <= Len(delays) + 1

\* C14 witness: the fifth attempt of a call given a variable list, sent after
\* four 202s and four delays with the parameters of the first.
C14_Witness ==
    /\ op.name = ResultsFetcher
    /\ op.variables /= None
    /\ lastReq.kind = "resource"
    /\ Len(sent) = 5
    /\ Len(delays) = 4
    /\ sent[5] = sent[1]

\* The 202 responses received so far in this call.
ProcessingSoFar == Cardinality({i \in 1..Len(responses) : responses[i].status = 202})

\* C15: get_athlete_measurement_results: whatever the server answers, a call
\* sends at most 5 results requests and sleeps at most 4 times, its
\* retry_count is in 0..5 and is the number of 202 responses it has received
\* so far; and every call ends.
C15_BoundedPolling ==
    /\ [](op.name = ResultsFetcher =>
            /\ Len(sent) <= 5
            /\ Len(delays) <= 4
            /\ retry_count \in 0..5
            /\ retry_count = ProcessingSoFar)
    /\ (pc /= "idle") ~> (pc = "idle")

\* C15 witness: a call has ended with its counter at the ceiling, after five
\* requests and four delays.
C15_Witness ==
    /\ op.name = ResultsFetcher
    /\ pc = "idle"
    /\ retry_count = 5
    /\ ProcessingSoFar = 5
    /\ Len(sent) = 5
    /\ Len(delays) = 4

\* C16: get_athlete_measurement_results, when a call is over: it has
\* returned, from inside the loop body and not from the return None after
\* the loop: the parsed body of a 200 (line 418), the exhaustion error value
\* (line 429) or None (line 439); and it has returned None only when the
\* last response had a status other than 200 and 202.
C16_ReturnsInsideLoop ==
    (op.name = ResultsFetcher /\ pc = "idle") =>
        /\ result.kind = "return"
        /\ result.line /= 442
        /\ \/ result.line = 418 /\ Last(responses).status = 200 /\ result.v.t = "dict"
           \/ result.line = 429 /\ result.v = ExhaustedError
           \/ result.line = 439 /\ result.v = None
        /\ result.v = None => Last(responses).status \notin {200, 202}

\* The offset a page request asks for: 0 when it has no offset parameter.
OffsetOf(prm) == IF "offset" \in DOMAIN prm THEN prm["offset"] ELSE 0

\* The last page response of this call ends the paging: it has a failure
\* status, or it is a page with more = false.
LastPageEnds ==
    /\ responses /= <<>>
    /\ IF Last(responses).status /= 200
       THEN TRUE
       ELSE ParsesAsJson(Last(responses)) /\ ~PageMore(Len(responses))

\* C17: the paginated fetchers: a call is over exactly when the server has
\* answered a page request with a failure status or with more = false (so
\* while the server answers more = true the call goes on, whatever the
\* number of requests so far); a call that is over has sent at least one
\* page request; the offsets of the requests of a call never decrease, and
\* increase after a page that was not empty.
C17_PaginationTermination ==
    op.name \in PagedFetchers =>
        /\ pc = "idle" <=> LastPageEnds
        /\ pc = "idle" => Len(sent) >= 1
        /\ \A i \in 2..Len(sent) :
              /\ OffsetOf(sent[i]) >= OffsetOf(sent[i - 1])
              /\ PageItems(i - 1) /= <<>> => OffsetOf(sent[i]) > OffsetOf(sent[i - 1])

\* This step enters generate_query_headers: a fetcher is called and builds
\* its first request, or a paginated fetcher goes on to its next page, or
\* the polling loop goes on to its next attempt.
EntersQueryHeaders ==
    \/ calls' = calls + 1
    \/ pc = "res" /\ responses' /= responses /\ pc' \in {"key", "res"}
    \/ pc = "sleep" /\ pc' \in {"key", "res"}

\* C18: generate_query_headers sends a key-retrieval request exactly when it
\* is entered with no key cached: entered with None it sends the key request
\* and nothing else, entered with a key it sends the resource request at
\* once, and no key request is sent in any other step.  The key request is
\* answered before the resource request is sent: a resource request made
\* while no key is cached is sent in the step that handles the key response.
\* And in every state the cached key is None exactly when no key retrieval
\* of the instance has returned a key.
C18_KeyRetrievalIffNone ==
    /\ [][/\ (EntersQueryHeaders /\ api_key = None) =>
                (keyReqs' = keyReqs + 1 /\ pc' = "key" /\ lastReq'.kind = "key" /\ ~SendsResource)
          /\ (EntersQueryHeaders /\ api_key /= None) =>
                (keyReqs' = keyReqs /\ pc' = "res" /\ lastReq'.kind = "resource")
          /\ keyReqs' /= keyReqs => (EntersQueryHeaders /\ api_key = None)
          /\ (SendsResource /\ api_key = None) => (pc = "key" /\ ~EntersQueryHeaders)
          /\ pc = "key" => (keyReqs' = keyReqs /\ pc' \in {"res", "idle"})]_vars
    /\ [](api_key = None <=> keyOKs = 0)

\* C18 witness: a paginated call whose first key retrieval failed and whose
\* second, made on entering generate_query_headers for the second page,
\* returned the key the second page request carries.
C18_Witness ==
    /\ op.name \in PagedFetchers
    /\ keyReqs = 2
    /\ keyOKs = 1
    /\ api_key /= None
    /\ Len(sent) = 2
    /\ lastReq.kind = "resource"
    /\ lastReq.headers["x-api-key"] = api_key

\* The lines of ConfirmInputs that are y or yes, in any case, with
\* whitespace around them.
YesAnswers ==
    {<<"y">>, <<"Y">>, <<"y", "e", "s">>, <<" ", "Y", "e", "S", "\t">>, <<"\t", "y", " ">>}

\* C19: the registration script: a POST has been sent only after
\* confirmation, by --yes or by an answer that is y or yes in any case with
\* whitespace around it; after any other answer the run is over with no
\* request sent and exit status 0; at most one POST is sent in a run; and
\* when the run is over its exit status is 1 exactly when register_consumer
\* raised RegistrationError.
C19_ConfirmedPost ==
    /\ Len(posts) <= 1
    /\ posts /= <<>> =>
          \/ args.yes
          \/ confirmInput.given /\ confirmInput.text \in YesAnswers
    /\ (confirmInput.given /\ confirmInput.text \notin YesAnswers) =>
          /\ regPc = "done"
          /\ posts = <<>>
          /\ ExitStatus(mainResult) = 0
    /\ (confirmInput.given /\ confirmInput.text \in YesAnswers) => posts /= <<>>
    /\ regPc = "done" => (ExitStatus(mainResult) = 1 <=> RaisedRegistrationError)

FetchOrder ==
    <<"get_accounts", "get_account_coaches", "get_account_teams", "get_account_athletes",
      "get_athlete_measurements", "get_athlete_measurement_results">>

\* v is a list that is not empty.
NonEmptyList(v) == v.t = "list" /\ Len(v.v) > 0

\* C21: the example program calls the fetchers in the order accounts,
\* coaches, teams, athletes, measurements, results, each at most once and
\* one at a time: the fetchers called so far are a prefix of that order, the
\* client runs the last one called, every request goes to its URL, and a
\* fetcher is called only when the client is idle.  Once the accounts fetch
\* has returned None the run is over with no request after it.  The
\* measurements fetch has been called only if the athletes result is a list
\* that is not empty, the results fetch only if the measurements result is.
\* A None from the coaches or the teams fetch does not stop the run: a run
\* that ends straight after one of them was ended by an exception.  A run
\* that is over has no request in flight.
C21_ExampleOrder ==
    /\ [](/\ fetches = SubSeq(FetchOrder, 1, Len(fetches))
          /\ fetches /= <<>> =>
                /\ op.name = Last(fetches)
                /\ lastReq.kind = "resource" => lastReq.url = Url([name |-> Last(fetches)])
          /\ (exPc \notin {"start", "get_accounts"} /\ accounts = None) =>
                (exPc = "done" /\ pc = "idle" /\ Len(fetches) <= 1)
          /\ Len(fetches) >= 5 => NonEmptyList(account_athletes)
          /\ Len(fetches) >= 6 => NonEmptyList(athlete_measurements)
          /\ (exPc = "done" /\ Len(fetches) \in {2, 3}) => exResult.kind = "raise"
          /\ exPc = "done" => pc = "idle")
    /\ [][/\ fetches' /= fetches => (pc = "idle" /\ Len(fetches') = Len(fetches) + 1)
          /\ exPc = "done" => (lastReq' = lastReq /\ keyReqs' = keyReqs /\ sent' = sent)]_vars

\* C21 witness: a run in which the coaches and the teams fetch both returned
\* None has gone through all six fetchers and ended after the results.
C21_Witness ==
    /\ exPc = "done"
    /\ fetches = FetchOrder
    /\ exResult.kind = "return"
    /\ exResult.line = 184
    /\ account_coaches = None
    /\ account_teams = None
    /\ Len(account_athletes.v) > 1
    /\ athlete_measurement_results /= None

====
